---- MODULE Spec2Model ----
(***************************************************************************)
(* Toolset registry of the GitHub MCP server: the catalog built by         *)
(* default_toolset_group (github_mcp/tools.py), the startup configuration  *)
(* and tool registration done by create_server (server.py), and the        *)
(* registry operations available afterwards.                               *)
(***************************************************************************)
EXTENDS FiniteSets, Integers, Sequences, TLC

VARIABLES
    args_toolsets,   \* args.toolsets: [is_none, names]; is_none models Python None
    read_only,       \* ToolsetGroup.read_only (args.read_only)
    toolsets,        \* ToolsetGroup.toolsets: name -> Toolset (the dict's values)
    toolset_order,   \* insertion order of the keys of ToolsetGroup.toolsets
    idx,             \* position of the loop "for toolset_name in args.toolsets"
    mcp_tools,       \* names of the tools held by the FastMCP instance, in order
    reg_enabled,     \* names of the toolsets that were enabled when tools were registered
    listed,          \* answer to the host's most recent "list tools" query
    dynamic_toolset, \* result of init_dynamic_toolset: <<>> before the call, <<Toolset>> after
    last,            \* the operation that ran last: [op, name, ret]
    pc,              \* position inside create_server / "serving" once it has returned
    snapshot,        \* the list get_enabled_toolsets() is building / has returned
    tpos,            \* position of the registration loop inside the current tool list
    arguments,       \* request.arguments of the request being validated: name -> value
    call,            \* the parameter helper that ran last and its call-site arguments
    result,          \* what that helper returned (or that it raised)
    handler,         \* the tool handler that is running: [tool, pc, i, fault, locals]
    client,          \* whether the handler has obtained a client from get_client(ctx)
    api_calls,       \* the calls the handler has made on the GitHub client, in order
    response,        \* what the host got back: a CallToolResult, or an exception
    added            \* the toolset a caller gave to add_toolset last: <<>> or <<Toolset>>

registryVars == <<args_toolsets, read_only, toolsets, toolset_order, idx, mcp_tools,
                  reg_enabled, listed, dynamic_toolset, last, pc>>

readerVars == <<snapshot, tpos>>

paramVars == <<arguments, call, result>>

handlerVars == <<handler, client, api_calls, response>>

groupVars == <<added>>

vars == <<args_toolsets, read_only, toolsets, toolset_order, idx, mcp_tools,
          reg_enabled, listed, dynamic_toolset, last, pc, readerVars, paramVars,
          handlerVars, groupVars>>

\* ------------------------------------------------------------------ bounds
MaxArgs == 2   \* longest --toolsets list explored

\* names that may appear in --toolsets
ArgNames == {"all", "repos", "issues", "experiments", "nonexistent"}

\* names passed to enable_toolset once the server is serving
EnableNames == {"repos", "issues", "experiments", "nonexistent"}

\* ------------------------------------------------------------------ helpers
Range(s) == {s[i] : i \in 1..Len(s)}

SeqsUpTo(S, n) == UNION {[1..k -> S] : k \in 0..n}

\* ------------------------------------------------------------------ Toolset
Toolset(name) ==
    [name |-> name, read_tools |-> <<>>, write_tools |-> <<>>, enabled |-> FALSE]

add_read_tools(ts, tools) == [ts EXCEPT !.read_tools = @ \o tools]

add_write_tools(ts, tools) == [ts EXCEPT !.write_tools = @ \o tools]

\* ------------------------------------------------------------------ tool sources
RepositoryTools ==
    <<"get_commit", "list_commits", "search_repositories", "get_file_contents">>

IssueTools ==
    <<"get_issue", "search_issues", "create_issue", "update_issue",
      "get_issue_comments", "add_issue_comment">>

PullRequestTools ==
    <<"get_pull_request", "list_pull_requests", "get_pull_request_files",
      "create_pull_request", "merge_pull_request">>

SecurityTools ==
    <<"get_dependabot_alert", "list_dependabot_alerts",
      "get_code_scanning_alert", "list_code_scanning_alerts">>

ActionsTools ==
    <<"list_workflows", "list_workflow_runs", "get_workflow_run",
      "list_workflow_run_artifacts", "run_workflow">>

MiscTools ==
    <<"list_notifications", "list_gists", "create_gist", "get_discussion">>

\* ------------------------------------------------------------------ classification tables
RepoWriteNames == {"create_or_update_file", "create_branch", "push_files", "delete_file"}

IssueWriteNames ==
    {"create_issue", "update_issue", "add_issue_comment", "add_sub_issue",
     "remove_sub_issue", "reprioritize_sub_issue"}

PullRequestWriteNames ==
    {"create_pull_request", "merge_pull_request", "update_pull_request",
     "create_and_submit_pull_request_review", "create_pending_pull_request_review",
     "add_comment_to_pending_review", "submit_pending_pull_request_review"}

ActionsWriteNames ==
    {"run_workflow", "rerun_workflow_run", "rerun_failed_jobs", "cancel_workflow_run",
     "delete_workflow_run_logs"}

\* tool names t with 'dependabot' in t / 'code_scanning' in t
HasDependabot == {"get_dependabot_alert", "list_dependabot_alerts"}

\* variant: the 'code_scanning' test never matches
HasCodeScanning_never == {}

HasCodeScanning == {"get_code_scanning_alert", "list_code_scanning_alerts"}

NotificationReadNames == {"list_notifications", "get_notification_details"}

GistReadNames == {"list_gists"}

GistWriteNames == {"create_gist", "update_gist"}

DiscussionReadNames ==
    {"get_discussion", "list_discussions", "get_discussion_comments",
     "list_discussion_categories"}

NotificationWriteNames ==
    {"dismiss_notification", "mark_all_notifications_read",
     "manage_notification_subscription", "manage_repository_notification_subscription"}

\* "for tool in tools: if tool.name in write_names: add_write_tools else: add_read_tools"
RECURSIVE Classify(_, _, _)
Classify(ts, tools, write_names) ==
    IF tools = <<>> THEN ts
    ELSE Classify(IF Head(tools) \in write_names
                  THEN add_write_tools(ts, <<Head(tools)>>)
                  ELSE add_read_tools(ts, <<Head(tools)>>),
                  Tail(tools), write_names)

\* the security loop: state is [code_security, dependabot]
RECURSIVE DistributeSecurity(_, _)
DistributeSecurity(st, tools) ==
    IF tools = <<>> THEN st
    ELSE LET t == Head(tools) IN
         DistributeSecurity(
            IF t \in HasDependabot
            THEN [st EXCEPT !.dependabot = add_read_tools(@, <<t>>)]
            ELSE IF t \in HasCodeScanning
            THEN [st EXCEPT !.code_security = add_read_tools(@, <<t>>)]
            ELSE [st EXCEPT !.code_security = add_read_tools(@, <<t>>),
                            !.dependabot = add_read_tools(@, <<t>>)],
            Tail(tools))

\* the misc loop: state is [notifications, gists, discussions]
RECURSIVE DistributeMisc(_, _)
DistributeMisc(st, tools) ==
    IF tools = <<>> THEN st
    ELSE LET t == Head(tools) IN
         DistributeMisc(
            IF t \in NotificationReadNames
            THEN [st EXCEPT !.notifications = add_read_tools(@, <<t>>)]
            ELSE IF t \in GistReadNames
            THEN [st EXCEPT !.gists = add_read_tools(@, <<t>>)]
            ELSE IF t \in GistWriteNames
            THEN [st EXCEPT !.gists = add_write_tools(@, <<t>>)]
            ELSE IF t \in DiscussionReadNames
            THEN [st EXCEPT !.discussions = add_read_tools(@, <<t>>)]
            ELSE IF t \in NotificationWriteNames
            THEN [st EXCEPT !.notifications = add_write_tools(@, <<t>>)]
            ELSE [st EXCEPT !.notifications = add_read_tools(@, <<t>>)],
            Tail(tools))

\* ------------------------------------------------------------------ ToolsetGroup
\* a group is [toolsets, order]; the dict keeps the position of a key that is set again
EmptyGroup == [toolsets |-> [n \in {} |-> Toolset(n)], order |-> <<>>]

\* variant: a name already present keeps its first toolset (dict.setdefault)
add_toolset_keeps_first(g, ts) ==
    [toolsets |-> [n \in DOMAIN g.toolsets \cup {ts.name} |->
                     IF n \in DOMAIN g.toolsets THEN g.toolsets[n] ELSE ts],
     order |-> IF ts.name \in DOMAIN g.toolsets THEN g.order ELSE Append(g.order, ts.name)]

add_toolset(g, ts) ==
    [toolsets |-> [n \in DOMAIN g.toolsets \cup {ts.name} |->
                     IF n = ts.name THEN ts ELSE g.toolsets[n]],
     order |-> IF ts.name \in DOMAIN g.toolsets THEN g.order ELSE Append(g.order, ts.name)]

RECURSIVE AddAll(_, _)
AddAll(g, tss) == IF tss = <<>> THEN g ELSE AddAll(add_toolset(g, Head(tss)), Tail(tss))

\* variant: a known name enables the whole group
enable_toolset_enables_all(tss, name) ==
    IF name \in DOMAIN tss
    THEN [toolsets |-> [n \in DOMAIN tss |-> [tss[n] EXCEPT !.enabled = TRUE]], ret |-> TRUE]
    ELSE [toolsets |-> tss, ret |-> FALSE]

\* variant: reports success for every name
enable_toolset_always_true(tss, name) ==
    IF name \in DOMAIN tss
    THEN [toolsets |-> [tss EXCEPT ![name].enabled = TRUE], ret |-> TRUE]
    ELSE [toolsets |-> tss, ret |-> TRUE]

\* variant: flips the flag instead of setting it
enable_toolset_toggle(tss, name) ==
    IF name \in DOMAIN tss
    THEN [toolsets |-> [tss EXCEPT ![name].enabled = ~@], ret |-> TRUE]
    ELSE [toolsets |-> tss, ret |-> FALSE]

\* enable_toolset returns the bool and mutates the named toolset in place
enable_toolset(tss, name) ==
    IF name \in DOMAIN tss
    THEN [toolsets |-> [tss EXCEPT ![name].enabled = TRUE], ret |-> TRUE]
    ELSE [toolsets |-> tss, ret |-> FALSE]

get_enabled_toolsets(tss, order) == SelectSeq(order, LAMBDA n : tss[n].enabled)

Enabled(ts) == [ts EXCEPT !.enabled = TRUE]

\* variant: experiments enabled like every other toolset
ExperimentsEnabledByDefault == Enabled(Toolset("experiments"))

\* experiments = Toolset("experiments", ...); experiments.enabled = False
ExperimentsToolset == Toolset("experiments")

default_toolset_group ==
    LET repos == Classify(Enabled(Toolset("repos")), RepositoryTools, RepoWriteNames)
        issues_toolset == Classify(Enabled(Toolset("issues")), IssueTools, IssueWriteNames)
        pull_requests ==
            Classify(Enabled(Toolset("pull_requests")), PullRequestTools, PullRequestWriteNames)
        users == Enabled(Toolset("users"))
        orgs == Enabled(Toolset("orgs"))
        secret_protection == Enabled(Toolset("secret_protection"))
        sec == DistributeSecurity(
                  [code_security |-> Enabled(Toolset("code_security")),
                   dependabot |-> Enabled(Toolset("dependabot"))], SecurityTools)
        actions == Classify(Enabled(Toolset("actions")), ActionsTools, ActionsWriteNames)
        security_advisories == Enabled(Toolset("security_advisories"))
        context_tools == Enabled(Toolset("context"))
        misc == DistributeMisc(
                  [notifications |-> Enabled(Toolset("notifications")),
                   gists |-> Enabled(Toolset("gists")),
                   discussions |-> Enabled(Toolset("discussions"))], MiscTools)
        experiments == ExperimentsToolset
    IN  AddAll(EmptyGroup,
               <<context_tools, repos, issues_toolset, orgs, users, pull_requests, actions,
                 sec.code_security, secret_protection, sec.dependabot, misc.notifications,
                 experiments, misc.discussions, misc.gists, security_advisories>>)

\* ------------------------------------------------------------------ create_server
\* "if args.toolsets and args.toolsets != ['all']"
SelectsToolsets(a) == ~a.is_none /\ a.names # <<>> /\ a.names # <<"all">>

\* variant: the "disable all" loop is missing
DisableAllToolsets_skipped(tss) == tss

DisableAllToolsets(tss) == [n \in DOMAIN tss |-> [tss[n] EXCEPT !.enabled = FALSE]]

EnableAllToolsets(tss) == [n \in DOMAIN tss |-> [tss[n] EXCEPT !.enabled = TRUE]]

\* variant: the read_only test is missing
toolset_tools_ungated(ts, ro) == ts.read_tools \o ts.write_tools

\* variant: write tools are registered before read tools
toolset_tools_write_first(ts, ro) == (IF ~ro THEN ts.write_tools ELSE <<>>) \o ts.read_tools

\* the tools one enabled toolset contributes: read tools, then write tools unless read-only
toolset_tools(ts, ro) == ts.read_tools \o (IF ~ro THEN ts.write_tools ELSE <<>>)

\* mcp.add_tool(handler, name=...) for each tool in turn
RECURSIVE add_tools(_, _)
add_tools(reg, tools) ==
    IF tools = <<>> THEN reg ELSE add_tools(Append(reg, Head(tools)), Tail(tools))

RECURSIVE register_loop(_, _, _, _)
register_loop(reg, names, tss, ro) ==
    IF names = <<>> THEN reg
    ELSE register_loop(add_tools(reg, toolset_tools(tss[Head(names)], ro)),
                       Tail(names), tss, ro)

register_tools(tss, order, ro) == register_loop(<<>>, get_enabled_toolsets(tss, order), tss, ro)

\* ------------------------------------------------------------------ request values
MaxListLen == 2   \* longest list value explored

\* a JSON value as Python holds it: t is the Python type name; n the int, the float
\* in tenths (57 is 5.7), or the number of entries of a dict; s the str; b the bool;
\* l the elements of a list
PyValue(t, n, s, b, l) == [t |-> t, n |-> n, s |-> s, b |-> b, l |-> l]

StrV(s) == PyValue("str", 0, s, FALSE, <<>>)

IntV(n) == PyValue("int", n, "", FALSE, <<>>)

FloatV(tenths) == PyValue("float", tenths, "", FALSE, <<>>)

BoolV(b) == PyValue("bool", 0, "", b, <<>>)

DictV(entries) == PyValue("dict", entries, "", FALSE, <<>>)

ListV(l) == PyValue("list", 0, "", FALSE, l)

NoneV == PyValue("NoneType", 0, "", FALSE, <<>>)

ScalarValues ==
    {StrV(""), StrV("a"), IntV(0), IntV(5), IntV(-3), IntV(100), IntV(101), FloatV(0), FloatV(5),
     FloatV(50), FloatV(57), FloatV(-57), BoolV(TRUE), BoolV(FALSE), DictV(0), DictV(1), NoneV}

ElemValues == {StrV("a"), StrV("b"), IntV(5), BoolV(TRUE)}

ListValues == {ListV(l) : l \in SeqsUpTo(ElemValues, MaxListLen)}

Keys == {"page", "perPage", "after"}

\* request.arguments: any of the keys absent or holding a scalar, or one key holding a list
Requests ==
    (UNION {[K -> ScalarValues] : K \in SUBSET Keys})
    \cup UNION {[{k} -> ListValues] : k \in Keys}

\* ------------------------------------------------------------------ Python semantics
\* a param_type argument: one class, or a tuple of classes
PyType(types, is_tuple) == [types |-> types, is_tuple |-> is_tuple]

StrT == PyType({"str"}, FALSE)

IntT == PyType({"int"}, FALSE)

BoolT == PyType({"bool"}, FALSE)

DictT == PyType({"dict"}, FALSE)

IntOrFloatT == PyType({"int", "float"}, TRUE)

ParamTypes == {StrT, IntT, BoolT, DictT, IntOrFloatT}

\* isinstance(value, param_type); bool is a subclass of int
isinstance(v, pt) == v.t \in pt.types \/ (v.t = "bool" /\ "int" \in pt.types)

\* type(value)()
ZeroOf(v) ==
    CASE v.t = "str" -> StrV("")
      [] v.t = "int" -> IntV(0)
      [] v.t = "float" -> FloatV(0)
      [] v.t = "bool" -> BoolV(FALSE)
      [] v.t = "dict" -> DictV(0)
      [] v.t = "list" -> ListV(<<>>)
      [] OTHER -> NoneV

\* variant: int() rounding down instead of toward zero
PyInt_floor(v) == IntV(v.n \div 10)

\* int(value) of a float: truncation toward zero
PyInt(v) == IntV(IF v.n >= 0 THEN v.n \div 10 ELSE -((-v.n) \div 10))

\* ------------------------------------------------------------------ what a helper returns
\* (value, err): err is "none", or the kind of ValueError with the parameter it names
\* and the type name its message reports; raised is the exception that escaped instead
Outcome(value, err, param, detail, raised) ==
    [value |-> value, err |-> err, param |-> param, detail |-> detail, raised |-> raised]

Ok(value) == Outcome(value, "none", "", "", "none")

\* ValueError(f"missing required parameter: {param_name}")
MissingParameter(value, name) == Outcome(value, "MissingParameter", name, "", "none")

\* ValueError(f"parameter {param_name} ... {type(x).__name__}")
TypeMismatch(value, name, got) == Outcome(value, "TypeMismatch", name, got.t, "none")

Raises(exc) == Outcome(NoneV, "none", "", "", exc)

\* the f-string evaluates param_type.__name__, which a tuple of classes does not have
NotOfType(name, pt, v) ==
    IF pt.is_tuple THEN Raises("AttributeError") ELSE TypeMismatch(NoneV, name, v)

\* "if err:" after a helper call
Failed(r) == r.err # "none"

\* ------------------------------------------------------------------ parameter helpers
DefaultPage == 1

DefaultPerPage == 30

\* "minimum" / "maximum" of page and perPage in the tools' inputSchema
MinPage == 1

MinPerPage == 1

MaxPerPage == 100

\* variant: the check for empty values is missing
required_param_no_empty_check(args, name, pt) ==
    IF name \notin DOMAIN args THEN MissingParameter(NoneV, name)
    ELSE IF ~isinstance(args[name], pt) THEN NotOfType(name, pt, args[name])
    ELSE Ok(args[name])

required_param(args, name, pt) ==
    IF name \notin DOMAIN args THEN MissingParameter(NoneV, name)
    ELSE IF ~isinstance(args[name], pt) THEN NotOfType(name, pt, args[name])
    ELSE IF args[name] = ZeroOf(args[name]) THEN MissingParameter(NoneV, name)
    ELSE Ok(args[name])

required_int_param(args, name) ==
    LET r == required_param(args, name, IntOrFloatT) IN
    IF r.raised # "none" THEN r
    ELSE IF Failed(r) THEN [r EXCEPT !.value = IntV(0)]
    ELSE IF r.value.t = "float" THEN Ok(PyInt(r.value))
    ELSE Ok(r.value)

optional_param(args, name, pt) ==
    IF name \notin DOMAIN args THEN Ok(NoneV)
    ELSE IF ~isinstance(args[name], pt) THEN NotOfType(name, pt, args[name])
    ELSE Ok(args[name])

optional_int_param(args, name) ==
    LET r == optional_param(args, name, IntOrFloatT) IN
    IF r.raised # "none" THEN r
    ELSE IF Failed(r) THEN [r EXCEPT !.value = NoneV]
    ELSE IF r.value = NoneV THEN Ok(NoneV)
    ELSE IF r.value.t = "float" THEN Ok(PyInt(r.value))
    ELSE Ok(r.value)

\* variant: the absent case returns the 0 of the error case instead of the default
optional_int_param_with_default_zero(args, name, default) ==
    LET r == optional_int_param(args, name) IN
    IF r.raised # "none" THEN r
    ELSE IF Failed(r) THEN [r EXCEPT !.value = IntV(0)]
    ELSE IF r.value = NoneV THEN Ok(IntV(0))
    ELSE Ok(r.value)

\* variant: "value or default", which also replaces a present 0
optional_int_param_with_default_or(args, name, default) ==
    LET r == optional_int_param(args, name) IN
    IF r.raised # "none" THEN r
    ELSE IF Failed(r) THEN [r EXCEPT !.value = IntV(0)]
    ELSE IF r.value = NoneV \/ r.value.n = 0 THEN Ok(IntV(default))
    ELSE Ok(r.value)

optional_int_param_with_default(args, name, default) ==
    LET r == optional_int_param(args, name) IN
    IF r.raised # "none" THEN r
    ELSE IF Failed(r) THEN [r EXCEPT !.value = IntV(0)]
    ELSE IF r.value = NoneV THEN Ok(IntV(default))
    ELSE Ok(r.value)

optional_bool_param_with_default(args, name, default) ==
    LET exists == name \in DOMAIN args
        r == optional_param(args, name, BoolT)
    IN  IF r.raised # "none" THEN r
        ELSE IF Failed(r) THEN [r EXCEPT !.value = BoolV(FALSE)]
        ELSE IF ~exists THEN Ok(BoolV(default))
        ELSE Ok(r.value)

\* the loop "for item in value": the first non-str item ends it with an error
RECURSIVE string_items(_, _, _)
string_items(name, items, acc) ==
    IF items = <<>> THEN Ok(ListV(acc))
    ELSE IF Head(items).t # "str" THEN TypeMismatch(NoneV, name, Head(items))
    ELSE string_items(name, Tail(items), Append(acc, Head(items)))

\* variant: items that are not strings are dropped
optional_string_array_param_lenient(args, name) ==
    IF name \notin DOMAIN args THEN Ok(ListV(<<>>))
    ELSE IF args[name] = NoneV THEN Ok(ListV(<<>>))
    ELSE IF args[name].t = "list"
         THEN Ok(ListV(SelectSeq(args[name].l, LAMBDA x : x.t = "str")))
    ELSE TypeMismatch(NoneV, name, args[name])

optional_string_array_param(args, name) ==
    IF name \notin DOMAIN args THEN Ok(ListV(<<>>))
    ELSE IF args[name] = NoneV THEN Ok(ListV(<<>>))
    ELSE IF args[name].t = "list"
         THEN IF args[name].l = <<>> THEN Ok(ListV(<<>>))
              ELSE string_items(name, args[name].l, <<>>)
    ELSE TypeMismatch(NoneV, name, args[name])

PaginationParams(page, per_page, after) ==
    [page |-> page, per_page |-> per_page, after |-> after]

CursorPaginationParams(per_page, after) == [per_page |-> per_page, after |-> after]

\* PaginationParams() / CursorPaginationParams(): the constructors' defaults
DefaultPaginationParams == PaginationParams(IntV(1), IntV(30), StrV(""))

DefaultCursorPaginationParams == CursorPaginationParams(IntV(30), StrV(""))

\* "after or ''": None and the empty string are falsy
OrEmpty(v) == IF v = NoneV \/ v = StrV("") THEN StrV("") ELSE v

\* variant: a page below 1 is replaced by the default page
optional_pagination_params_clamped(args) ==
    LET page == optional_int_param_with_default(args, "page", DefaultPage)
        per_page == optional_int_param_with_default(args, "perPage", DefaultPerPage)
        after == optional_param(args, "after", StrT)
    IN  IF page.raised # "none" THEN page
        ELSE IF Failed(page) THEN [page EXCEPT !.value = DefaultPaginationParams]
        ELSE IF per_page.raised # "none" THEN per_page
        ELSE IF Failed(per_page) THEN [per_page EXCEPT !.value = DefaultPaginationParams]
        ELSE IF Failed(after) THEN [after EXCEPT !.value = DefaultPaginationParams]
        ELSE Ok(PaginationParams(IF page.value.n < 1 THEN IntV(DefaultPage) ELSE page.value,
                                 per_page.value, OrEmpty(after.value)))

\* variant: perPage falls back to the page default
optional_pagination_params_one_default(args) ==
    LET page == optional_int_param_with_default(args, "page", DefaultPage)
        per_page == optional_int_param_with_default(args, "perPage", DefaultPage)
        after == optional_param(args, "after", StrT)
    IN  IF page.raised # "none" THEN page
        ELSE IF Failed(page) THEN [page EXCEPT !.value = DefaultPaginationParams]
        ELSE IF per_page.raised # "none" THEN per_page
        ELSE IF Failed(per_page) THEN [per_page EXCEPT !.value = DefaultPaginationParams]
        ELSE IF Failed(after) THEN [after EXCEPT !.value = DefaultPaginationParams]
        ELSE Ok(PaginationParams(page.value, per_page.value, OrEmpty(after.value)))

optional_pagination_params(args) ==
    LET page == optional_int_param_with_default(args, "page", DefaultPage)
        per_page == optional_int_param_with_default(args, "perPage", DefaultPerPage)
        after == optional_param(args, "after", StrT)
    IN  IF page.raised # "none" THEN page
        ELSE IF Failed(page) THEN [page EXCEPT !.value = DefaultPaginationParams]
        ELSE IF per_page.raised # "none" THEN per_page
        ELSE IF Failed(per_page) THEN [per_page EXCEPT !.value = DefaultPaginationParams]
        ELSE IF Failed(after) THEN [after EXCEPT !.value = DefaultPaginationParams]
        ELSE Ok(PaginationParams(page.value, per_page.value, OrEmpty(after.value)))

optional_cursor_pagination_params(args) ==
    LET per_page == optional_int_param_with_default(args, "perPage", DefaultPerPage)
        after == optional_param(args, "after", StrT)
    IN  IF per_page.raised # "none" THEN per_page
        ELSE IF Failed(per_page) THEN [per_page EXCEPT !.value = DefaultCursorPaginationParams]
        ELSE IF Failed(after) THEN [after EXCEPT !.value = DefaultCursorPaginationParams]
        ELSE Ok(CursorPaginationParams(per_page.value, OrEmpty(after.value)))

\* the helper called last: fn, the parameter name, the param_type or the default
Call(fn, name, pt, default) == [fn |-> fn, name |-> name, pt |-> pt, default |-> default]

NoCall == Call("none", "", StrT, NoneV)

NoArguments == [k \in {} |-> NoneV]

Op(op, name, ret) == [op |-> op, name |-> name, ret |-> ret]

\* ------------------------------------------------------------------ tool results
\* the text of an error: what kind of failure it reports and the parameter it names
Message(kind, param) == [kind |-> kind, param |-> param]

NoMessage == Message("", "")

\* CallToolResult(type=..., text=... / error={"message": ...}); escaped is the
\* exception that left the handler instead of a result
CallToolResult(type, text, message) ==
    [type |-> type, text |-> text, message |-> message, escaped |-> "none"]

NoResponse == CallToolResult("none", <<>>, NoMessage)

\* a handler: the tool, its position, the next parameter check, the layer that failed,
\* and the local variables that hold the parameters checked so far
Handler(tool, hpc, i, fault, locals) ==
    [tool |-> tool, pc |-> hpc, i |-> i, fault |-> fault, locals |-> locals]

NoLocals == [k \in {} |-> 0]

Idle == Handler("", "idle", 1, "none", NoLocals)

Init ==
    /\ args_toolsets \in {[is_none |-> TRUE, names |-> <<>>]}
                         \cup {[is_none |-> FALSE, names |-> s] : s \in SeqsUpTo(ArgNames, MaxArgs)}
    /\ read_only \in BOOLEAN
    /\ toolsets = EmptyGroup.toolsets
    /\ toolset_order = EmptyGroup.order
    /\ idx = 1
    /\ mcp_tools = <<>>
    /\ reg_enabled = {}
    /\ listed = <<>>
    /\ dynamic_toolset = <<>>
    /\ last = Op("start", "", FALSE)
    /\ pc = "build"
    /\ snapshot = <<>>
    /\ tpos = 1
    /\ arguments = NoArguments
    /\ call = NoCall
    /\ result = Ok(NoneV)
    /\ handler = Idle
    /\ client = FALSE
    /\ api_calls = <<>>
    /\ response = NoResponse
    /\ added = <<>>

\* toolset_group = default_toolset_group(read_only=args.read_only, ...)
BuildToolsetGroup ==
    /\ pc = "build"
    /\ toolsets' = default_toolset_group.toolsets
    /\ toolset_order' = default_toolset_group.order
    /\ last' = Op("default_toolset_group", "", FALSE)
    /\ pc' = "configure"
    /\ UNCHANGED <<args_toolsets, read_only, idx, mcp_tools, reg_enabled, listed,
                   dynamic_toolset>>
    /\ UNCHANGED <<readerVars, paramVars, handlerVars, groupVars>>

\* after one pass of the loop body: next element, or on to registration
AfterElement(i) == IF i + 1 > Len(args_toolsets.names) THEN "register" ELSE "enable_listed"

\* the if-branch: "First disable all toolsets"
DisableAll ==
    /\ pc = "configure"
    /\ SelectsToolsets(args_toolsets)
    /\ toolsets' = DisableAllToolsets(toolsets)
    /\ idx' = 1
    /\ last' = Op("disable_all", "", FALSE)
    /\ pc' = "enable_listed"
    /\ UNCHANGED <<args_toolsets, read_only, toolset_order, mcp_tools, reg_enabled, listed,
                   dynamic_toolset>>
    /\ UNCHANGED <<readerVars, paramVars, handlerVars, groupVars>>

\* variant: the else-branch does what its comment says, "Enable all toolsets by default"
KeepDefaults_enables_all ==
    /\ pc = "configure"
    /\ ~SelectsToolsets(args_toolsets)
    /\ toolsets' = EnableAllToolsets(toolsets)
    /\ last' = Op("keep_defaults", "", FALSE)
    /\ pc' = "register"
    /\ UNCHANGED <<args_toolsets, read_only, toolset_order, idx, mcp_tools,
                   reg_enabled, listed, dynamic_toolset>>
    /\ UNCHANGED <<readerVars, paramVars, handlerVars, groupVars>>

\* the else-branch: nothing but a log line
KeepDefaults ==
    /\ pc = "configure"
    /\ ~SelectsToolsets(args_toolsets)
    /\ last' = Op("keep_defaults", "", FALSE)
    /\ pc' = "register"
    /\ UNCHANGED <<args_toolsets, read_only, toolsets, toolset_order, idx, mcp_tools,
                   reg_enabled, listed, dynamic_toolset>>
    /\ UNCHANGED <<readerVars, paramVars, handlerVars, groupVars>>

\* loop body, toolset_name == "all": enable every toolset and break
EnableAllListed ==
    /\ pc = "enable_listed"
    /\ args_toolsets.names[idx] = "all"
    /\ toolsets' = EnableAllToolsets(toolsets)
    /\ last' = Op("enable_all", "all", FALSE)
    /\ pc' = "register"
    /\ UNCHANGED <<args_toolsets, read_only, toolset_order, idx, mcp_tools, reg_enabled,
                   listed, dynamic_toolset>>
    /\ UNCHANGED <<readerVars, paramVars, handlerVars, groupVars>>

\* loop body, toolset_name in toolset_group.toolsets
EnableListed ==
    /\ pc = "enable_listed"
    /\ args_toolsets.names[idx] # "all"
    /\ args_toolsets.names[idx] \in DOMAIN toolsets
    /\ toolsets' = [toolsets EXCEPT ![args_toolsets.names[idx]].enabled = TRUE]
    /\ idx' = idx + 1
    /\ last' = Op("enable_listed", args_toolsets.names[idx], FALSE)
    /\ pc' = AfterElement(idx)
    /\ UNCHANGED <<args_toolsets, read_only, toolset_order, mcp_tools, reg_enabled, listed,
                   dynamic_toolset>>
    /\ UNCHANGED <<readerVars, paramVars, handlerVars, groupVars>>

\* loop body, unknown name: a warning is logged
SkipUnknown ==
    /\ pc = "enable_listed"
    /\ args_toolsets.names[idx] # "all"
    /\ args_toolsets.names[idx] \notin DOMAIN toolsets
    /\ idx' = idx + 1
    /\ last' = Op("skip_unknown", args_toolsets.names[idx], FALSE)
    /\ pc' = AfterElement(idx)
    /\ UNCHANGED <<args_toolsets, read_only, toolsets, toolset_order, mcp_tools, reg_enabled,
                   listed, dynamic_toolset>>
    /\ UNCHANGED <<readerVars, paramVars, handlerVars, groupVars>>

\* "Register tools from enabled toolsets", then create_server returns mcp
Register ==
    /\ pc = "register"
    /\ mcp_tools' = register_tools(toolsets, toolset_order, read_only)
    /\ reg_enabled' = {n \in DOMAIN toolsets : toolsets[n].enabled}
    /\ last' = Op("register", "", FALSE)
    /\ pc' = "serving"
    /\ UNCHANGED <<args_toolsets, read_only, toolsets, toolset_order, idx, listed,
                   dynamic_toolset>>
    /\ UNCHANGED <<readerVars, paramVars, handlerVars, groupVars>>

\* ------------------------------------------------------------------ operations while serving
\* a caller of ToolsetGroup.enable_toolset(name)
EnableToolset(name) ==
    /\ pc = "serving"
    /\ LET r == enable_toolset(toolsets, name) IN
         /\ toolsets' = r.toolsets
         /\ last' = Op("enable_toolset", name, r.ret)
    /\ UNCHANGED <<args_toolsets, read_only, toolset_order, idx, mcp_tools, reg_enabled,
                   listed, dynamic_toolset, pc>>
    /\ UNCHANGED <<readerVars, paramVars, handlerVars, groupVars>>

\* the host asks the FastMCP instance for its tools
ListTools ==
    /\ pc = "serving"
    /\ listed' = mcp_tools
    /\ last' = Op("list_tools", "", FALSE)
    /\ UNCHANGED <<args_toolsets, read_only, toolsets, toolset_order, idx, mcp_tools,
                   reg_enabled, dynamic_toolset, pc>>
    /\ UNCHANGED <<readerVars, paramVars, handlerVars, groupVars>>

\* init_dynamic_toolset(server, tsg): builds the toolset, adds no tool, returns it
init_dynamic_toolset == Enabled(Toolset("dynamic"))

InitDynamicToolset ==
    /\ pc = "serving"
    /\ dynamic_toolset' = <<init_dynamic_toolset>>
    /\ last' = Op("init_dynamic_toolset", "", FALSE)
    /\ UNCHANGED <<args_toolsets, read_only, toolsets, toolset_order, idx, mcp_tools,
                   reg_enabled, listed, pc>>
    /\ UNCHANGED <<readerVars, paramVars, handlerVars, groupVars>>

\* the host invokes a registered tool: the handler works on its request and its client
\* only, it holds no reference to the toolset group
CallTool(tool) ==
    /\ pc = "serving"
    /\ tool \in Range(mcp_tools)
    /\ last' = Op("call_tool", tool, FALSE)
    /\ UNCHANGED <<args_toolsets, read_only, toolsets, toolset_order, idx, mcp_tools,
                   reg_enabled, listed, dynamic_toolset, pc>>
    /\ UNCHANGED <<readerVars, paramVars, handlerVars, groupVars>>

\* tools the host invokes
CalledTools == {"get_issue", "create_issue", "merge_pull_request", "list_commits"}

Next ==
    \/ BuildToolsetGroup
    \/ DisableAll
    \/ KeepDefaults
    \/ EnableAllListed
    \/ EnableListed
    \/ SkipUnknown
    \/ Register
    \/ \E name \in EnableNames : EnableToolset(name)
    \/ ListTools
    \/ InitDynamicToolset
    \/ \E tool \in CalledTools : CallTool(tool)

Spec == Init /\ [][Next]_vars

\* ================================================================== parameter helpers at work
\* defaults offered to the *_with_default helpers
IntDefaults == {DefaultPage, DefaultPerPage}

\* a server started with no --toolsets list, serving; a request has arrived
ParamInit ==
    /\ args_toolsets = [is_none |-> TRUE, names |-> <<>>]
    /\ read_only = FALSE
    /\ toolsets = default_toolset_group.toolsets
    /\ toolset_order = default_toolset_group.order
    /\ idx = 1
    /\ mcp_tools = register_tools(toolsets, toolset_order, read_only)
    /\ reg_enabled = {n \in DOMAIN toolsets : toolsets[n].enabled}
    /\ listed = <<>>
    /\ dynamic_toolset = <<>>
    /\ last = Op("register", "", FALSE)
    /\ pc = "serving"
    /\ snapshot = <<>>
    /\ tpos = 1
    /\ arguments \in Requests
    /\ call = NoCall
    /\ result = Ok(NoneV)
    /\ handler = Idle
    /\ client = FALSE
    /\ api_calls = <<>>
    /\ response = NoResponse
    /\ added = <<>>

\* one helper call on the request that has arrived
Returns(c, r) ==
    /\ call = NoCall
    /\ call' = c
    /\ result' = r
    /\ UNCHANGED <<arguments, registryVars, readerVars, handlerVars, groupVars>>

RequiredParam(name, pt) ==
    Returns(Call("required_param", name, pt, NoneV), required_param(arguments, name, pt))

RequiredIntParam(name) ==
    Returns(Call("required_int_param", name, IntOrFloatT, NoneV),
            required_int_param(arguments, name))

OptionalParam(name, pt) ==
    Returns(Call("optional_param", name, pt, NoneV), optional_param(arguments, name, pt))

OptionalIntParam(name) ==
    Returns(Call("optional_int_param", name, IntOrFloatT, NoneV),
            optional_int_param(arguments, name))

OptionalIntParamWithDefault(name, default) ==
    Returns(Call("optional_int_param_with_default", name, IntOrFloatT, IntV(default)),
            optional_int_param_with_default(arguments, name, default))

OptionalBoolParamWithDefault(name, default) ==
    Returns(Call("optional_bool_param_with_default", name, BoolT, BoolV(default)),
            optional_bool_param_with_default(arguments, name, default))

OptionalStringArrayParam(name) ==
    Returns(Call("optional_string_array_param", name, StrT, NoneV),
            optional_string_array_param(arguments, name))

OptionalPaginationParams ==
    Returns(Call("optional_pagination_params", "", StrT, NoneV),
            optional_pagination_params(arguments))

OptionalCursorPaginationParams ==
    Returns(Call("optional_cursor_pagination_params", "", StrT, NoneV),
            optional_cursor_pagination_params(arguments))

ParamNext ==
    \/ \E name \in Keys, pt \in ParamTypes : RequiredParam(name, pt)
    \/ \E name \in Keys : RequiredIntParam(name)
    \/ \E name \in Keys, pt \in ParamTypes : OptionalParam(name, pt)
    \/ \E name \in Keys : OptionalIntParam(name)
    \/ \E name \in Keys, default \in IntDefaults : OptionalIntParamWithDefault(name, default)
    \/ \E name \in Keys, default \in BOOLEAN : OptionalBoolParamWithDefault(name, default)
    \/ \E name \in Keys : OptionalStringArrayParam(name)
    \/ OptionalPaginationParams
    \/ OptionalCursorPaginationParams

ParamSpec == ParamInit /\ [][ParamNext]_vars

\* ================================================================== tool handlers
\* the parameter checks a handler makes, in the order it makes them
Checks(tool) ==
    CASE tool = "get_issue" ->
           <<Call("required_param", "owner", StrT, NoneV),
             Call("required_param", "repo", StrT, NoneV),
             Call("required_param", "issue_number", IntT, NoneV)>>
      [] tool = "create_issue" ->
           <<Call("required_param", "owner", StrT, NoneV),
             Call("required_param", "repo", StrT, NoneV),
             Call("required_param", "title", StrT, NoneV),
             Call("optional_param", "body", StrT, NoneV),
             Call("optional_string_array_param", "labels", StrT, NoneV),
             Call("optional_string_array_param", "assignees", StrT, NoneV)>>
      [] tool = "merge_pull_request" ->
           <<Call("required_param", "owner", StrT, NoneV),
             Call("required_param", "repo", StrT, NoneV),
             Call("required_param", "pull_number", IntT, NoneV),
             Call("optional_param", "commit_title", StrT, NoneV),
             Call("optional_param", "commit_message", StrT, NoneV),
             Call("optional_param", "merge_method", StrT, NoneV)>>
      [] tool = "list_commits" ->
           <<Call("required_param", "owner", StrT, NoneV),
             Call("required_param", "repo", StrT, NoneV),
             Call("optional_param", "sha", StrT, NoneV),
             Call("optional_param", "author", StrT, NoneV),
             Call("optional_pagination_params", "", StrT, NoneV)>>
      [] OTHER -> <<>>

\* the helper call c made on the request's arguments
RunCheck(c, args) ==
    CASE c.fn = "required_param" -> required_param(args, c.name, c.pt)
      [] c.fn = "optional_param" -> optional_param(args, c.name, c.pt)
      [] c.fn = "optional_string_array_param" -> optional_string_array_param(args, c.name)
      [] OTHER -> optional_pagination_params(args)

\* the keys of request.arguments that the check c reads
KeysRead(c) == IF c.fn = "optional_pagination_params" THEN <<"page", "perPage", "after">>
               ELSE <<c.name>>

RECURSIVE Flatten(_)
Flatten(ss) == IF ss = <<>> THEN <<>> ELSE Head(ss) \o Flatten(Tail(ss))

ParamsOf(tool) == Flatten([i \in 1..Len(Checks(tool)) |-> KeysRead(Checks(tool)[i])])

\* values a host sends for the key k: one the handler accepts first, then others
Offered(k) ==
    CASE k = "owner" -> <<StrV("o"), StrV(""), IntV(5)>>
      [] k = "repo" -> <<StrV("r"), StrV(""), IntV(5)>>
      [] k = "title" -> <<StrV("a"), StrV(""), IntV(5)>>
      [] k \in {"issue_number", "pull_number"} -> <<IntV(5), IntV(0), StrV("a"), BoolV(TRUE)>>
      [] k \in {"labels", "assignees"} ->
           <<ListV(<<StrV("a")>>), ListV(<<IntV(5)>>), StrV("a")>>
      [] k \in {"page", "perPage"} -> <<IntV(5), StrV("a")>>
      [] OTHER -> <<StrV("a"), IntV(5)>>

\* the argument map that holds, for each key k, the offered value number pick[k],
\* and lacks the keys whose number is 0
ArgumentMap(pick) ==
    [k \in {x \in DOMAIN pick : pick[x] > 0} |-> Offered(k)[pick[k]]]

HandlerRequests(tool) ==
    {ArgumentMap(pick) :
        pick \in {c \in [Range(ParamsOf(tool)) -> 0..4] : \A k \in DOMAIN c : c[k] <= Len(Offered(k))}}

\* the local variable that receives the value of the check c
LocalOf(c) == IF c.fn = "optional_pagination_params" THEN "pagination" ELSE c.name

\* truth value of a Python object: None, "", 0, False, [] and {} are falsy
Truthy(v) == v # NoneV /\ v # ZeroOf(v)

\* "x or default"
Or(v, default) == IF Truthy(v) THEN v ELSE default

\* keyword arguments: the entries of kw whose key is in keep
Kwargs(kw, keep) == [k \in keep |-> kw[k]]

\* variant: owner and repo change places in the repository path
RepoPath_swapped(owner, repo) == <<repo.s, "/", owner.s>>

\* f"{owner}/{repo}"
RepoPath(owner, repo) == <<owner.s, "/", repo.s>>

ClientCall(method, args, kwargs) == [method |-> method, args |-> args, kwargs |-> kwargs]

NoKwargs == [k \in {} |-> NoneV]

get_repo(locals) == ClientCall("get_repo", <<RepoPath(locals.owner, locals.repo)>>, NoKwargs)

\* the calls a handler makes on the client, in order, when none of them raises
ApiCalls(tool, locals) ==
    CASE tool = "get_issue" ->
           <<get_repo(locals), ClientCall("get_issue", <<locals.issue_number>>, NoKwargs)>>
      [] tool = "create_issue" ->
           LET issue_data == [title |-> locals.title,
                              body |-> Or(locals.body, StrV("")),
                              labels |-> locals.labels,
                              assignees |-> locals.assignees]
           IN  <<get_repo(locals),
                 ClientCall("create_issue", <<>>,
                            Kwargs(issue_data,
                                   {"title", "body"}
                                   \cup (IF Truthy(locals.labels) THEN {"labels"} ELSE {})
                                   \cup (IF Truthy(locals.assignees) THEN {"assignees"}
                                         ELSE {})))>>
      [] tool = "merge_pull_request" ->
           LET merge_options == [commit_title |-> locals.commit_title,
                                 commit_message |-> locals.commit_message,
                                 merge_method |-> Or(locals.merge_method, StrV("merge"))]
           IN  <<get_repo(locals),
                 ClientCall("get_pull", <<locals.pull_number>>, NoKwargs),
                 ClientCall("merge", <<>>,
                            Kwargs(merge_options,
                                   {"merge_method"}
                                   \cup (IF Truthy(locals.commit_title) THEN {"commit_title"}
                                         ELSE {})
                                   \cup (IF Truthy(locals.commit_message)
                                         THEN {"commit_message"} ELSE {})))>>
      [] OTHER ->
           <<get_repo(locals),
             ClientCall("get_commits", <<>>,
                        [sha |-> locals.sha,
                         author |-> locals.author,
                         page |-> locals.pagination.page,
                         per_page |-> Or(locals.pagination.per_page, IntV(DefaultPerPage))])>>

\* CallToolResult(type="error", error={"message": ...})
ErrorResult(message) == CallToolResult("error", <<>>, message)

\* variant: the handler body is not wrapped in try / except Exception
handler_except_reraise(exc) == [NoResponse EXCEPT !.escaped = exc]

\* the handler's outer "except Exception as e": an error result carrying str(e)
handler_except(exc) == ErrorResult(Message(exc, ""))

\* the "except Exception as e" round the client calls: f"Failed to ...: {str(e)}"
api_except(exc) == ErrorResult(Message("Failed", ""))

\* what a handler gives to marshalled_text_result, and whether json.dumps accepts it
Data(payload, serializable) == [payload |-> payload, serializable |-> serializable]

\* json.dumps(data)
json_dumps(data) == <<"json", data.payload>>

\* variant: json.dumps is called outside any try
marshalled_text_result_unguarded(data) ==
    IF data.serializable THEN CallToolResult("text", json_dumps(data), NoMessage)
    ELSE [NoResponse EXCEPT !.escaped = "TypeError"]

marshalled_text_result(data) ==
    IF data.serializable THEN CallToolResult("text", json_dumps(data), NoMessage)
    ELSE ErrorResult(Message("failed to marshal text result to json", ""))

\* variant: the client is obtained once the first parameter has been checked
AfterCheck_client_early(i, n) == "client"

\* where the handler goes once check i of n has passed
AfterCheck(i, n) == IF i < n THEN "params" ELSE "client"

\* a server started with no --toolsets list, serving; no request has arrived
HandlerInit ==
    /\ args_toolsets = [is_none |-> TRUE, names |-> <<>>]
    /\ read_only = FALSE
    /\ toolsets = default_toolset_group.toolsets
    /\ toolset_order = default_toolset_group.order
    /\ idx = 1
    /\ mcp_tools = register_tools(toolsets, toolset_order, read_only)
    /\ reg_enabled = {n \in DOMAIN toolsets : toolsets[n].enabled}
    /\ listed = <<>>
    /\ dynamic_toolset = <<>>
    /\ last = Op("register", "", FALSE)
    /\ pc = "serving"
    /\ snapshot = <<>>
    /\ tpos = 1
    /\ arguments = NoArguments
    /\ call = NoCall
    /\ result = Ok(NoneV)
    /\ handler = Idle
    /\ client = FALSE
    /\ api_calls = <<>>
    /\ response = NoResponse
    /\ added = <<>>

HandlerFrame == UNCHANGED <<registryVars, readerVars, call, result, groupVars>>

\* the handler returns (or an exception leaves it): the host has its answer
Finish(fault, r) ==
    /\ handler' = [handler EXCEPT !.pc = "done", !.fault = fault]
    /\ response' = r

\* the host calls a registered tool with an argument map
InvokeHandler(tool, args) ==
    /\ pc = "serving"
    /\ handler = Idle
    /\ tool \in Range(mcp_tools)
    /\ handler' = Handler(tool, "params", 1, "none", NoLocals)
    /\ arguments' = args
    /\ last' = Op("call_tool", tool, FALSE)
    /\ UNCHANGED <<args_toolsets, read_only, toolsets, toolset_order, idx, mcp_tools,
                   reg_enabled, listed, dynamic_toolset, pc>>
    /\ UNCHANGED <<readerVars, call, result, client, api_calls, response, groupVars>>

\* "x, err = helper(request, ...)" and "if err: return CallToolResult(type="error", ...)"
CheckParameter ==
    /\ handler.pc = "params"
    /\ LET cs == Checks(handler.tool)
           r == RunCheck(cs[handler.i], arguments)
       IN  IF r.raised # "none" THEN Finish("params", handler_except(r.raised))
           ELSE IF Failed(r) THEN Finish("params", ErrorResult(Message(r.err, r.param)))
           ELSE /\ handler' = [handler EXCEPT
                                 !.pc = AfterCheck(handler.i, Len(cs)),
                                 !.i = handler.i + 1,
                                 !.locals = (LocalOf(cs[handler.i]) :> r.value) @@ @]
                /\ UNCHANGED response
    /\ UNCHANGED <<arguments, client, api_calls>>
    /\ HandlerFrame

\* client = get_client(ctx)
GetClient ==
    /\ handler.pc = "client"
    /\ client' = TRUE
    /\ handler' = [handler EXCEPT !.pc = "api"]
    /\ UNCHANGED <<arguments, api_calls, response>>
    /\ HandlerFrame

\* get_client(ctx) raises
GetClientFails ==
    /\ handler.pc = "client"
    /\ Finish("client", handler_except("Exception"))
    /\ UNCHANGED <<arguments, client, api_calls>>
    /\ HandlerFrame

\* the calls on the client all return
CallCollaborator ==
    /\ handler.pc = "api"
    /\ api_calls' = ApiCalls(handler.tool, handler.locals)
    /\ handler' = [handler EXCEPT !.pc = "answer"]
    /\ UNCHANGED <<arguments, client, response>>
    /\ HandlerFrame

\* call k on the client raises; the calls before it have been made
CollaboratorFails(k) ==
    /\ handler.pc = "api"
    /\ k \in 1..Len(ApiCalls(handler.tool, handler.locals))
    /\ api_calls' = SubSeq(ApiCalls(handler.tool, handler.locals), 1, k)
    /\ Finish("api", api_except("GithubException"))
    /\ UNCHANGED <<arguments, client>>
    /\ HandlerFrame

\* convert_to_issue(issue), convert_to_minimal_commit(commit), result.merged is true
ReadAnswer ==
    /\ handler.pc = "answer"
    /\ handler' = [handler EXCEPT !.pc = "marshal"]
    /\ UNCHANGED <<arguments, client, api_calls, response>>
    /\ HandlerFrame

\* reading the answer raises
ReadAnswerFails ==
    /\ handler.pc = "answer"
    /\ Finish("convert", api_except("Exception"))
    /\ UNCHANGED <<arguments, client, api_calls>>
    /\ HandlerFrame

\* merge_pull_request: result.merged is false
MergeRefused ==
    /\ handler.pc = "answer"
    /\ handler.tool = "merge_pull_request"
    /\ Finish("refused", ErrorResult(Message("Failed to merge pull request", "")))
    /\ UNCHANGED <<arguments, client, api_calls>>
    /\ HandlerFrame

\* return marshalled_text_result(...), inside the try round the client calls
MarshalResult(serializable) ==
    /\ handler.pc = "marshal"
    /\ LET r == marshalled_text_result(Data(api_calls, serializable)) IN
         Finish(IF serializable THEN "none" ELSE "serialize",
                IF r.escaped # "none" THEN api_except(r.escaped) ELSE r)
    /\ UNCHANGED <<arguments, client, api_calls>>
    /\ HandlerFrame

HandlerStep ==
    \/ CheckParameter
    \/ GetClient
    \/ GetClientFails
    \/ CallCollaborator
    \/ \E k \in 1..3 : CollaboratorFails(k)
    \/ ReadAnswer
    \/ ReadAnswerFails
    \/ MergeRefused
    \/ \E serializable \in BOOLEAN : MarshalResult(serializable)

HandlerNext ==
    \/ \E tool \in CalledTools : \E args \in HandlerRequests(tool) : InvokeHandler(tool, args)
    \/ HandlerStep

\* a handler that has been called runs on: its code has no wait but the client calls,
\* which return or raise
HandlerSpec == HandlerInit /\ [][HandlerNext]_vars /\ WF_vars(HandlerStep)

\* ================================================================== listing while enabling
\* The registration loop of create_server taken one read at a time, with callers of
\* enable_toolset running beside it.

\* toolsets a --toolsets list may have enabled before the loop starts
ListedAtStart == {"repos", "issues", "gists"}

\* variant: the comprehension keeps every toolset
comprehension_step_unfiltered(snap, ts) == Append(snap, ts.name)

\* one iteration of "[ts for ts in self.toolsets.values() if ts.enabled]"
comprehension_step(snap, ts) == IF ts.enabled THEN Append(snap, ts.name) ELSE snap

WithEnabled(tss, S) == [n \in DOMAIN tss |-> [tss[n] EXCEPT !.enabled = (n \in S)]]

ConcInit ==
    /\ args_toolsets \in {[is_none |-> TRUE, names |-> <<>>]}
                         \cup {[is_none |-> FALSE, names |-> s] :
                                 s \in SeqsUpTo(ListedAtStart, MaxArgs) \ {<<>>}}
    /\ read_only \in BOOLEAN
    /\ toolsets = IF args_toolsets.is_none
                  THEN default_toolset_group.toolsets
                  ELSE WithEnabled(default_toolset_group.toolsets, Range(args_toolsets.names))
    /\ toolset_order = default_toolset_group.order
    /\ idx = 1
    /\ mcp_tools = <<>>
    /\ reg_enabled = {n \in DOMAIN toolsets : toolsets[n].enabled}
    /\ listed = <<>>
    /\ dynamic_toolset = <<>>
    /\ last = Op("configured", "", FALSE)
    /\ pc = "get_enabled"
    /\ snapshot = <<>>
    /\ tpos = 1
    /\ arguments = NoArguments
    /\ call = NoCall
    /\ result = Ok(NoneV)
    /\ handler = Idle
    /\ client = FALSE
    /\ api_calls = <<>>
    /\ response = NoResponse
    /\ added = <<>>

ReaderFrame ==
    UNCHANGED <<args_toolsets, read_only, toolsets, toolset_order, reg_enabled, listed,
                dynamic_toolset, paramVars, handlerVars, groupVars>>

\* get_enabled_toolsets(): the comprehension looks at the next toolset's flag
ReadFlag ==
    /\ pc = "get_enabled"
    /\ idx <= Len(toolset_order)
    /\ snapshot' = comprehension_step(snapshot, toolsets[toolset_order[idx]])
    /\ idx' = idx + 1
    /\ last' = Op("read_flag", toolset_order[idx], toolsets[toolset_order[idx]].enabled)
    /\ UNCHANGED <<pc, tpos, mcp_tools>>
    /\ ReaderFrame

\* the comprehension is exhausted: "for toolset in <the list>" starts
StartLoop ==
    /\ pc = "get_enabled"
    /\ idx > Len(toolset_order)
    /\ idx' = 1
    /\ tpos' = 1
    /\ pc' = IF snapshot = <<>> THEN "serving" ELSE "read_tools"
    /\ last' = Op("get_enabled_toolsets", "", FALSE)
    /\ UNCHANGED <<snapshot, mcp_tools>>
    /\ ReaderFrame

\* "for tool_obj, handler in toolset.read_tools": mcp.add_tool of the next one
RegisterReadTool ==
    /\ pc = "read_tools"
    /\ tpos <= Len(toolsets[snapshot[idx]].read_tools)
    /\ mcp_tools' = Append(mcp_tools, toolsets[snapshot[idx]].read_tools[tpos])
    /\ tpos' = tpos + 1
    /\ last' = Op("add_tool", snapshot[idx], FALSE)
    /\ UNCHANGED <<pc, idx, snapshot>>
    /\ ReaderFrame

\* read tools done and "if not toolset_group.read_only" holds: on to the write tools
StartWriteTools ==
    /\ pc = "read_tools"
    /\ tpos > Len(toolsets[snapshot[idx]].read_tools)
    /\ ~read_only
    /\ tpos' = 1
    /\ pc' = "write_tools"
    /\ last' = Op("check_read_only", snapshot[idx], FALSE)
    /\ UNCHANGED <<idx, snapshot, mcp_tools>>
    /\ ReaderFrame

\* "for tool_obj, handler in toolset.write_tools": mcp.add_tool of the next one
RegisterWriteTool ==
    /\ pc = "write_tools"
    /\ tpos <= Len(toolsets[snapshot[idx]].write_tools)
    /\ mcp_tools' = Append(mcp_tools, toolsets[snapshot[idx]].write_tools[tpos])
    /\ tpos' = tpos + 1
    /\ last' = Op("add_tool", snapshot[idx], TRUE)
    /\ UNCHANGED <<pc, idx, snapshot>>
    /\ ReaderFrame

\* this toolset is done: the next one of the list, or the loop ends
NextToolset ==
    /\ \/ pc = "read_tools" /\ tpos > Len(toolsets[snapshot[idx]].read_tools) /\ read_only
       \/ pc = "write_tools" /\ tpos > Len(toolsets[snapshot[idx]].write_tools)
    /\ idx' = idx + 1
    /\ tpos' = 1
    /\ pc' = IF idx + 1 > Len(snapshot) THEN "serving" ELSE "read_tools"
    /\ last' = Op("next_toolset", snapshot[idx], FALSE)
    /\ UNCHANGED <<snapshot, mcp_tools>>
    /\ ReaderFrame

\* another thread calls enable_toolset(name) while the loop is under way
ConcurrentEnable(name) ==
    /\ pc # "serving"
    /\ LET r == enable_toolset(toolsets, name) IN
         /\ toolsets' = r.toolsets
         /\ last' = Op("enable_toolset", name, r.ret)
    /\ UNCHANGED <<args_toolsets, read_only, toolset_order, idx, mcp_tools, reg_enabled,
                   listed, dynamic_toolset, pc, readerVars, paramVars, handlerVars,
                   groupVars>>

ConcNext ==
    \/ ReadFlag
    \/ StartLoop
    \/ RegisterReadTool
    \/ StartWriteTools
    \/ RegisterWriteTool
    \/ NextToolset
    \/ \E name \in EnableNames : ConcurrentEnable(name)

ConcSpec == ConcInit /\ [][ConcNext]_vars

\* ================================================================== properties
EnabledNames == {n \in DOMAIN toolsets : toolsets[n].enabled}

AllWriteTools == UNION {Range(toolsets[n].write_tools) : n \in DOMAIN toolsets}

ReadToolsOf(S) == UNION {Range(toolsets[n].read_tools) : n \in S}

WriteToolsOf(S) == UNION {Range(toolsets[n].write_tools) : n \in S}

\* the set the registry says is exposed for the toolsets in S
ExposableOf(S) == ReadToolsOf(S) \cup (IF read_only THEN {} ELSE WriteToolsOf(S))

ListGiven == ~args_toolsets.is_none /\ args_toolsets.names # <<>>

HasAll == "all" \in Range(args_toolsets.names)

\* ------------------------------------------------------------------ C1
\* C1: when the registry is read-only, nothing registered with the host and nothing
\* a "list tools" query returns is a write tool of any toolset, whatever is enabled.
C1_ReadOnlyExposesNoWriteTool ==
    read_only => /\ Range(mcp_tools) \cap AllWriteTools = {}
                 /\ Range(listed) \cap AllWriteTools = {}

C1_Witness ==
    /\ pc = "serving"
    /\ read_only
    /\ listed # <<>>
    /\ \E n \in reg_enabled : toolsets[n].write_tools # <<>>

\* ------------------------------------------------------------------ C2
\* C2: while serving, the set of tools exposed to the host is the union of the read
\* tools of the enabled toolsets, plus their write tools iff read_only is false.
C2_ExposedIsUnionOfEnabled ==
    pc = "serving" => Range(mcp_tools) = ExposableOf(EnabledNames)

\* The same equality restricted to the toolsets that were enabled when the tools
\* were registered: this is what the registration loop itself guarantees.
ExposedIsUnionAtRegistration ==
    pc = "serving" => Range(mcp_tools) = ExposableOf(reg_enabled)

\* ------------------------------------------------------------------ C3
\* C3: a call enable_toolset(name) on a known name returns true and leaves that
\* toolset enabled; on an unknown name it returns false and changes no toolset;
\* the set and order of the toolsets never change.
C3_EnableToolsetContract ==
    [][last'.op = "enable_toolset" =>
          /\ DOMAIN toolsets' = DOMAIN toolsets
          /\ toolset_order' = toolset_order
          /\ IF last'.name \in DOMAIN toolsets
             THEN last'.ret = TRUE /\ toolsets'[last'.name].enabled = TRUE
             ELSE last'.ret = FALSE /\ toolsets' = toolsets]_vars

C3_Witness ==
    /\ last.op = "enable_toolset"
    /\ last.name \notin DOMAIN toolsets
    /\ last.ret = FALSE
    /\ EnabledNames # reg_enabled

\* ------------------------------------------------------------------ C4
\* C4: in the state enable_toolset(name) has produced, a second enable_toolset(name)
\* returns the same value and leaves the registry exactly as it is.
C4_EnableToolsetIdempotent ==
    last.op = "enable_toolset" =>
        enable_toolset(toolsets, last.name) = [toolsets |-> toolsets, ret |-> last.ret]

C4_Witness ==
    /\ last.op = "enable_toolset"
    /\ last.ret = TRUE
    /\ last.name \notin reg_enabled
    /\ toolsets[last.name].enabled

\* ------------------------------------------------------------------ C5
\* C5: when the configured list contains "all", every toolset of the registry
\* (experiments too) was enabled when the tools were registered.
C5_AllEnablesEveryToolset ==
    (pc = "serving" /\ ListGiven /\ HasAll) => reg_enabled = DOMAIN toolsets

IndexOf(s, x) == CHOOSE i \in 1..Len(s) : s[i] = x

HomeOf(t) ==
    CHOOSE n \in DOMAIN toolsets :
        t \in Range(toolsets[n].read_tools) \cup Range(toolsets[n].write_tools)

\* <<position of the tool's toolset in the registry, 0 for read / 1 for write,
\*   position inside that list>>
KeyOf(t) ==
    LET ts == toolsets[HomeOf(t)]
        is_read == t \in Range(ts.read_tools)
    IN  <<IndexOf(toolset_order, HomeOf(t)),
          IF is_read THEN 0 ELSE 1,
          IF is_read THEN IndexOf(ts.read_tools, t) ELSE IndexOf(ts.write_tools, t)>>

LexLess(a, b) ==
    \/ a[1] < b[1]
    \/ a[1] = b[1] /\ a[2] < b[2]
    \/ a[1] = b[1] /\ a[2] = b[2] /\ a[3] < b[3]

Ordered(s) == \A i, j \in 1..Len(s) : i < j => LexLess(KeyOf(s[i]), KeyOf(s[j]))

\* C8: the listing is ordered by toolset insertion order, then read tools before
\* write tools, then insertion order inside the read or write list.
C8_ListingOrder == Ordered(mcp_tools) /\ Ordered(listed)

C8_Witness ==
    /\ pc = "serving"
    /\ ~read_only
    /\ {"repos", "issues"} \subseteq reg_enabled
    /\ listed = mcp_tools
    /\ Len(listed) >= Len(RepositoryTools) + Len(IssueTools)

\* ------------------------------------------------------------------ C9
\* C9: a "list tools" answer given after enable_toolset has enabled a toolset that
\* was disabled at registration contains that toolset's tools.
C9_ListReflectsEnable ==
    last.op = "list_tools" =>
        \A n \in EnabledNames \ reg_enabled : ExposableOf({n}) \subseteq Range(listed)

\* ------------------------------------------------------------------ C10
\* C10: the dynamic toolset, once built, is enabled and holds exactly one write tool
\* (the tool that calls enable_toolset).
C10_DynamicToolset ==
    dynamic_toolset # <<>> =>
        /\ dynamic_toolset[1].name = "dynamic"
        /\ dynamic_toolset[1].enabled
        /\ Len(dynamic_toolset[1].write_tools) = 1

\* ------------------------------------------------------------------ C11
ToolsOf(n) == Range(toolsets[n].read_tools) \cup Range(toolsets[n].write_tools)

EnableSteps == {"enable_toolset", "enable_listed", "enable_all"}

\* C12: every toolset is either enabled or disabled; the catalog is built with its
\* defaults; a flag turns on only in an enable step and off only in the disable-all
\* step, so a listing query or a tool invocation changes no flag.
C12_ToolsetStateMachine ==
    /\ [](\A n \in DOMAIN toolsets : toolsets[n].enabled \in BOOLEAN)
    /\ [](last.op = "default_toolset_group" =>
             EnabledNames = DOMAIN toolsets \ {"experiments"})
    /\ [][\A n \in DOMAIN toolsets \cap DOMAIN toolsets' :
             toolsets'[n].enabled # toolsets[n].enabled =>
                 \/ toolsets'[n].enabled /\ last'.op \in EnableSteps
                 \/ ~toolsets'[n].enabled /\ last'.op = "disable_all"]_vars
    /\ [][last'.op \in {"list_tools", "call_tool"} => toolsets' = toolsets]_vars

C12_Witness ==
    /\ last.op = "call_tool"
    /\ EnabledNames # reg_enabled
    /\ listed # <<>>
    /\ ~args_toolsets.is_none

\* ------------------------------------------------------------------ C13
\* where a tool name occurs in the registry: <<toolset, "read" or "write", position>>
Occurrences(t) ==
    UNION {{<<n, "read", i>> :
               i \in {j \in 1..Len(toolsets[n].read_tools) : toolsets[n].read_tools[j] = t}}
           \cup {<<n, "write", i>> :
               i \in {j \in 1..Len(toolsets[n].write_tools) : toolsets[n].write_tools[j] = t}}
           : n \in DOMAIN toolsets}

\* every tool the tool modules hand to default_toolset_group
SourceTools ==
    Range(RepositoryTools) \cup Range(IssueTools) \cup Range(PullRequestTools)
    \cup Range(SecurityTools) \cup Range(ActionsTools) \cup Range(MiscTools)

NoDuplicates(s) == \A i, j \in 1..Len(s) : i # j => s[i] # s[j]

\* C13: once the registry is built, every tool sits in exactly one toolset and in
\* exactly one of its read or write lists, the registry holds no other tool, and no
\* name occurs twice in what is registered or listed.
C13_UniqueToolNames ==
    pc # "build" =>
        /\ \A t \in SourceTools : Cardinality(Occurrences(t)) = 1
        /\ UNION {ToolsOf(n) : n \in DOMAIN toolsets} = SourceTools
        /\ NoDuplicates(mcp_tools)
        /\ NoDuplicates(listed)

C13_Witness ==
    /\ pc = "serving"
    /\ ~read_only
    /\ reg_enabled = DOMAIN toolsets
    /\ Len(mcp_tools) = Cardinality(SourceTools)
    /\ listed = mcp_tools

\* ================================================================== parameter contract
\* the kind of a value in the contract's terms
KindOf(v) ==
    CASE v.t = "str" -> "string"
      [] v.t \in {"int", "float"} -> "number"
      [] v.t = "bool" -> "boolean"
      [] v.t = "list" -> "sequence"
      [] v.t = "dict" -> "mapping"
      [] OTHER -> "null"

\* the kind a call site asks for
ExpectedKind(pt) ==
    CASE pt = StrT -> "string"
      [] pt = BoolT -> "boolean"
      [] pt = DictT -> "mapping"
      [] OTHER -> "number"

Present == call.name \in DOMAIN arguments

Arg == arguments[call.name]

\* the zero values of the contract: "", 0, 0.0, false, {}
IsZeroValue(v) == v \in {StrV(""), IntV(0), FloatV(0), BoolV(FALSE), DictV(0)}

Returned(v) == result.raised = "none" /\ result.err = "none" /\ result.value = v

FailedWith(err) == result.raised = "none" /\ result.err = err /\ result.param = call.name

\* r is the float n/10 cut toward zero
TruncatedTowardZero(n, r) ==
    /\ n >= 0 => 10 * r <= n /\ n < 10 * r + 10
    /\ n < 0 => 10 * r >= n /\ n > 10 * r - 10

\* what an int parameter helper makes of the number v
AsInteger(v) ==
    IF v.t = "int" THEN v
    ELSE IntV(CHOOSE r \in -(v.n * v.n + 1)..(v.n * v.n + 1) : TruncatedTowardZero(v.n, r))

\* ------------------------------------------------------------------ C14
\* C14: required_param, asked for one kind (str, int, bool, dict), fails with
\* MissingParameter when the name is absent and with TypeMismatch when the value
\* present is not of that kind, a bool given for an int included.
C14_RequiredParamRejects ==
    (call.fn = "required_param" /\ ~call.pt.is_tuple) =>
        /\ ~Present => FailedWith("MissingParameter")
        /\ (Present /\ KindOf(Arg) # ExpectedKind(call.pt)) => FailedWith("TypeMismatch")

\* ------------------------------------------------------------------ C15
\* C15: required_param, given a value of exactly the expected type, fails with
\* MissingParameter when it is that type's zero value and returns it unchanged
\* otherwise.
C15_RequiredParamZeroValue ==
    (call.fn = "required_param" /\ Present /\ Arg.t \in call.pt.types) =>
        IF IsZeroValue(Arg) THEN FailedWith("MissingParameter") ELSE Returned(Arg)

C15_Witness ==
    /\ call.fn = "required_param"
    /\ call.pt = BoolT
    /\ Present
    /\ Arg = BoolV(FALSE)
    /\ result.err = "MissingParameter"

\* ------------------------------------------------------------------ C16
\* C16: optional_param returns (None, no error) when the name is absent, fails with
\* TypeMismatch when the value present is not of the expected kind (null included),
\* and returns a value of the expected kind unchanged.
C16_OptionalParamContract ==
    call.fn = "optional_param" =>
        /\ ~Present => Returned(NoneV)
        /\ (Present /\ KindOf(Arg) # ExpectedKind(call.pt)) => FailedWith("TypeMismatch")
        /\ (Present /\ Arg.t \in call.pt.types) => Returned(Arg)

\* ------------------------------------------------------------------ C17
\* C17: the int helpers, given an int or a float (a required one not being zero),
\* return an int without error: an int as it is, a float cut toward zero.
C17_IntParamTruncates ==
    (/\ call.fn \in {"required_int_param", "optional_int_param"}
     /\ Present
     /\ Arg.t \in {"int", "float"}
     /\ ~(call.fn = "required_int_param" /\ Arg.n = 0)) =>
        /\ result.raised = "none" /\ result.err = "none"
        /\ result.value.t = "int"
        /\ Arg.t = "int" => result.value = Arg
        /\ Arg.t = "float" => TruncatedTowardZero(Arg.n, result.value.n)

C17_Witness ==
    /\ call.fn = "required_int_param"
    /\ Present
    /\ Arg = FloatV(-57)
    /\ result.value = IntV(-5)
    /\ result.err = "none"

\* ------------------------------------------------------------------ C18
\* C18: the *_with_default helpers return the default when the key is absent, and
\* the value present (an int, a float cut to an int, a bool) when it is valid, its
\* zero value included.
C18_DefaultOnlyWhenAbsent ==
    /\ call.fn = "optional_int_param_with_default" =>
          /\ ~Present => Returned(call.default)
          /\ (Present /\ Arg.t \in {"int", "float"}) => Returned(AsInteger(Arg))
    /\ call.fn = "optional_bool_param_with_default" =>
          /\ ~Present => Returned(call.default)
          /\ (Present /\ Arg.t = "bool") => Returned(Arg)

C18_Witness ==
    /\ call.fn = "optional_int_param_with_default"
    /\ call.name = "perPage"
    /\ call.default = IntV(DefaultPerPage)
    /\ Present
    /\ Arg = IntV(0)
    /\ result.value = IntV(0)
    /\ result.err = "none"

\* ------------------------------------------------------------------ C19
FirstNonString(l) == l[CHOOSE i \in 1..Len(l) : l[i].t # "str" /\ \A j \in 1..(i - 1) : l[j].t = "str"]

\* C19: optional_string_array_param returns [] for an absent key, a null and an
\* empty list; returns a list of strings as it is; fails with TypeMismatch reporting
\* the first element that is not a string; fails with TypeMismatch for a value that
\* is neither null nor a list.
C19_StringArray ==
    call.fn = "optional_string_array_param" =>
        /\ (~Present \/ (Present /\ Arg \in {NoneV, ListV(<<>>)})) => Returned(ListV(<<>>))
        /\ (Present /\ Arg.t = "list" /\ \A i \in 1..Len(Arg.l) : Arg.l[i].t = "str") =>
              Returned(Arg)
        /\ (Present /\ Arg.t = "list" /\ \E i \in 1..Len(Arg.l) : Arg.l[i].t # "str") =>
              FailedWith("TypeMismatch") /\ result.detail = FirstNonString(Arg.l).t
        /\ (Present /\ Arg.t \notin {"list", "NoneType"}) =>
              FailedWith("TypeMismatch") /\ result.detail = Arg.t

C19_Witness ==
    /\ call.fn = "optional_string_array_param"
    /\ Present
    /\ Arg = ListV(<<StrV("a"), BoolV(TRUE)>>)
    /\ result.err = "TypeMismatch"
    /\ result.detail = "bool"

\* ------------------------------------------------------------------ C20
IntField(k, default) ==
    IF k \in DOMAIN arguments THEN AsInteger(arguments[k]) ELSE IntV(default)

AfterField == IF "after" \in DOMAIN arguments THEN arguments["after"] ELSE StrV("")

ValidInt(k) == k \in DOMAIN arguments => arguments[k].t \in {"int", "float"}

ValidAfter == "after" \in DOMAIN arguments => arguments["after"].t = "str"

\* C20: with valid or absent keys the pagination helpers succeed, each field being
\* the value of its own key, or its default (page 1, perPage 30, after "") when that
\* key is absent; a request with none of the keys gives {1, 30, ""}.
C20_PaginationDefaults ==
    /\ (call.fn = "optional_pagination_params"
        /\ ValidInt("page") /\ ValidInt("perPage") /\ ValidAfter) =>
          /\ Returned(PaginationParams(IntField("page", 1), IntField("perPage", 30),
                                       AfterField))
          /\ arguments = NoArguments =>
                result.value = [page |-> IntV(1), per_page |-> IntV(30), after |-> StrV("")]
    /\ (call.fn = "optional_cursor_pagination_params" /\ ValidInt("perPage") /\ ValidAfter) =>
          Returned(CursorPaginationParams(IntField("perPage", 30), AfterField))

C20_Witness ==
    /\ call.fn = "optional_pagination_params"
    /\ DOMAIN arguments = {"perPage"}
    /\ arguments["perPage"] = IntV(5)
    /\ result.err = "none"
    /\ result.value = [page |-> IntV(1), per_page |-> IntV(5), after |-> StrV("")]

\* ------------------------------------------------------------------ C21
\* an int given for k that the inputSchema's bounds exclude
OutOfRange(k) ==
    /\ k \in DOMAIN arguments
    /\ arguments[k].t = "int"
    /\ \/ k = "page" /\ arguments[k].n < MinPage
       \/ k = "perPage" /\ (arguments[k].n < MinPerPage \/ arguments[k].n > MaxPerPage)

\* C21: optional_pagination_params does not reject out-of-range values: an integer
\* page below 1, or perPage below 1 or above 100, gives no error and comes back
\* unchanged in the PaginationParams (the other keys being absent or valid).
C21_OutOfRangeAccepted ==
    (call.fn = "optional_pagination_params"
     /\ ValidInt("page") /\ ValidInt("perPage") /\ ValidAfter) =>
        \A k \in {"page", "perPage"} :
            OutOfRange(k) =>
                /\ result.raised = "none" /\ result.err = "none"
                /\ (IF k = "page" THEN result.value.page ELSE result.value.per_page)
                       = arguments[k]

C21_Witness ==
    /\ call.fn = "optional_pagination_params"
    /\ DOMAIN arguments = {"page", "perPage"}
    /\ arguments["page"] = IntV(-3)
    /\ arguments["perPage"] = IntV(101)
    /\ result.err = "none"
    /\ result.value = [page |-> IntV(-3), per_page |-> IntV(101), after |-> StrV("")]

\* ------------------------------------------------------------------ C22
\* the int a value counts as in a comparison: True is 1 and False is 0
PyNum(v) == IF v.t = "bool" THEN (IF v.b THEN 1 ELSE 0) ELSE v.n

PageInRange(v) == v.t \in {"int", "bool"} /\ PyNum(v) >= MinPage

PerPageInRange(v) ==
    v.t \in {"int", "bool"} /\ PyNum(v) >= MinPerPage /\ PyNum(v) <= MaxPerPage

\* the number v in tenths
Tenths(v) == IF v.t = "int" THEN 10 * v.n ELSE v.n

IsNumber(k) == k \in DOMAIN arguments => arguments[k].t \in {"int", "float"}

\* the request's k, where present, respects the inputSchema's minimum / maximum
AtLeast(k, lo) == k \in DOMAIN arguments => Tenths(arguments[k]) >= 10 * lo

AtMost(k, hi) == k \in DOMAIN arguments => Tenths(arguments[k]) <= 10 * hi

\* C22 as stated: every PaginationParams that optional_pagination_params returns
\* without error has page >= 1 and 1 <= perPage <= 100, whatever the arguments.
C22_PaginationInRange ==
    (call.fn = "optional_pagination_params" /\ result.raised = "none" /\ result.err = "none") =>
        PageInRange(result.value.page) /\ PerPageInRange(result.value.per_page)

\* C22 as amended: every PaginationParams that optional_pagination_params returns
\* without error has page >= 1 and 1 <= perPage <= 100 when the request's page and
\* perPage, where present, are ints or floats within those bounds.
C22_InRangeForRequestsInRange ==
    (call.fn = "optional_pagination_params" /\ result.raised = "none" /\ result.err = "none"
     /\ IsNumber("page") /\ AtLeast("page", MinPage)
     /\ IsNumber("perPage") /\ AtLeast("perPage", MinPerPage) /\ AtMost("perPage", MaxPerPage)) =>
        PageInRange(result.value.page) /\ PerPageInRange(result.value.per_page)

C22_Witness ==
    /\ call.fn = "optional_pagination_params"
    /\ DOMAIN arguments = {"page", "perPage"}
    /\ arguments["page"] = FloatV(57)
    /\ arguments["perPage"] = IntV(100)
    /\ result.err = "none"
    /\ result.value = [page |-> IntV(5), per_page |-> IntV(100), after |-> StrV("")]

\* ------------------------------------------------------------------ C28
\* C28: when required_int_param returns without error, the integer it returns is
\* not 0, also when the value supplied is a fraction that truncates to 0.
C28_RequiredIntNonZero ==
    (call.fn = "required_int_param" /\ result.raised = "none" /\ result.err = "none") =>
        result.value # IntV(0)

\* ================================================================== a group being filled
\* names under which a caller adds toolsets
GroupNames == {"repos", "issues", "gists"}

\* toolsets as callers build them before add_toolset: Toolset(name), then tools, then
\* perhaps enabled
NewToolsets ==
    {IF e THEN Enabled(t) ELSE t :
        t \in {add_write_tools(add_read_tools(Toolset(n), r), w) :
                 n \in GroupNames, r \in {<<>>, <<"get_it">>}, w \in {<<>>, <<"create_it">>}},
        e \in BOOLEAN}

\* tsg = ToolsetGroup(read_only=read_only): no toolset yet
GroupInit ==
    /\ args_toolsets = [is_none |-> TRUE, names |-> <<>>]
    /\ read_only \in BOOLEAN
    /\ toolsets = EmptyGroup.toolsets
    /\ toolset_order = EmptyGroup.order
    /\ idx = 1
    /\ mcp_tools = <<>>
    /\ reg_enabled = {}
    /\ listed = <<>>
    /\ dynamic_toolset = <<>>
    /\ last = Op("none", "", FALSE)
    /\ pc = "build"
    /\ snapshot = <<>>
    /\ tpos = 1
    /\ arguments = NoArguments
    /\ call = NoCall
    /\ result = Ok(NoneV)
    /\ handler = Idle
    /\ client = FALSE
    /\ api_calls = <<>>
    /\ response = NoResponse
    /\ added = <<>>

GroupFrame ==
    UNCHANGED <<args_toolsets, read_only, idx, mcp_tools, reg_enabled, listed,
                dynamic_toolset, pc, readerVars, paramVars, handlerVars>>

\* tsg.add_toolset(ts)
AddToolset(ts) ==
    /\ LET g == add_toolset([toolsets |-> toolsets, order |-> toolset_order], ts) IN
         /\ toolsets' = g.toolsets
         /\ toolset_order' = g.order
    /\ added' = <<ts>>
    /\ last' = Op("add_toolset", ts.name, FALSE)
    /\ GroupFrame

\* tsg.enable_toolset(name)
GroupEnableToolset(name) ==
    /\ LET r == enable_toolset(toolsets, name) IN
         /\ toolsets' = r.toolsets
         /\ last' = Op("enable_toolset", name, r.ret)
    /\ UNCHANGED <<toolset_order, added>>
    /\ GroupFrame

GroupNext ==
    \/ \E ts \in NewToolsets : AddToolset(ts)
    \/ \E name \in GroupNames : GroupEnableToolset(name)

GroupSpec == GroupInit /\ [][GroupNext]_vars

\* ================================================================== handlers and results
Done == handler.pc = "done"

\* a CallToolResult of one of the two shapes: Success with a text, or Error with a message
WellFormed(r) ==
    /\ r.escaped = "none"
    /\ \/ r.type = "text" /\ r.text # <<>> /\ r.message = NoMessage
       \/ r.type = "error" /\ r.text = <<>> /\ r.message # NoMessage

\* every parameter check of the running handler accepts the request's arguments
AllChecksPass ==
    \A j \in 1..Len(Checks(handler.tool)) :
        LET r == RunCheck(Checks(handler.tool)[j], arguments) IN
        r.raised = "none" /\ r.err = "none"

\* ------------------------------------------------------------------ C23
\* C23: every handler invocation ends, and ends by returning exactly one well-formed
\* result (Success or Error); no exception reaches the host, whichever layer fails:
\* the arguments, client creation, the client calls, conversion or serialization.
C23_AlwaysOneResult ==
    /\ [](Done => WellFormed(response))
    /\ [](~Done => response = NoResponse)
    /\ [][response # NoResponse => response' = response]_vars
    /\ (handler.pc = "params") ~> Done

C23_Witness ==
    /\ Done
    /\ handler.fault = "client"
    /\ response.type = "error"
    /\ response.escaped = "none"

\* ------------------------------------------------------------------ C24
\* the parameter whose check ended the handler
FailedParameter ==
    LET c == Checks(handler.tool)[handler.i] IN
    IF c.fn # "optional_pagination_params" THEN c.name
    ELSE IF ~ValidInt("page") THEN "page"
    ELSE IF ~ValidInt("perPage") THEN "perPage"
    ELSE "after"

\* C24: when a parameter check fails inside a handler, the handler returns an Error
\* whose message contains the name of the parameter that failed.
C24_ErrorNamesParameter ==
    (Done /\ handler.fault = "params") =>
        response.type = "error" /\ response.message.param = FailedParameter

\* the case C24 singles out, which holds: get_issue with owner and repo but without
\* issue_number returns an Error that mentions issue_number
GetIssueWithoutNumber ==
    (Done /\ handler.tool = "get_issue"
     /\ arguments = [owner |-> StrV("o"), repo |-> StrV("r")]) =>
        response.type = "error" /\ response.message.param = "issue_number"

\* ------------------------------------------------------------------ C25
\* C25: marshalled_text_result returns Success carrying the serialized payload when
\* serialization succeeds and an Error when it fails; it never raises, and a failed
\* serialization is the only way it produces an Error.
C25_MarshalledTextResult ==
    (Done /\ handler.fault \in {"none", "serialize"}) =>
        /\ response.escaped = "none"
        /\ handler.fault = "none" =>
              response.type = "text" /\ response.text = <<"json", api_calls>>
        /\ handler.fault = "serialize" =>
              /\ response.type = "error"
              /\ response.message.kind = "failed to marshal text result to json"

C25_Witness ==
    /\ Done
    /\ handler.fault = "serialize"
    /\ response.type = "error"
    /\ response.message.kind = "failed to marshal text result to json"

\* ------------------------------------------------------------------ C26
GetIssueRequest == [owner |-> StrV("o"), repo |-> StrV("r"), issue_number |-> IntV(5)]

GetIssueCalls ==
    <<[method |-> "get_repo", args |-> <<<<"o", "/", "r">>>>, kwargs |-> NoKwargs],
      [method |-> "get_issue", args |-> <<IntV(5)>>, kwargs |-> NoKwargs]>>

\* C26: a get_issue request {owner: "o", repo: "r", issue_number: 5} passes all the
\* parameter checks, the handler hands exactly "o", "r" and 5 to the client, and when
\* the client answers (an issue that converts and serializes) the result is Success.
C26_GetIssueEndToEnd ==
    (handler.tool = "get_issue" /\ arguments = GetIssueRequest) =>
        /\ handler.fault # "params"
        /\ \A k \in 1..Len(api_calls) : k <= Len(GetIssueCalls) /\ api_calls[k] = GetIssueCalls[k]
        /\ handler.pc \in {"answer", "marshal"} => api_calls = GetIssueCalls
        /\ (Done /\ handler.fault = "none") =>
              response.type = "text" /\ api_calls = GetIssueCalls

C26_Witness ==
    /\ Done
    /\ handler.tool = "get_issue"
    /\ arguments = GetIssueRequest
    /\ response.type = "text"
    /\ api_calls = GetIssueCalls

\* ------------------------------------------------------------------ C27
\* C27: validation precedes delegation: a handler has a client, and has called it,
\* only when every parameter check passed; if a check fails the handler returns an
\* Error having created no client and called nothing.
C27_ValidationBeforeDelegation ==
    /\ client => AllChecksPass
    /\ api_calls # <<>> => client
    /\ (Done /\ ~AllChecksPass) =>
          response.type = "error" /\ ~client /\ api_calls = <<>>

C27_Witness ==
    /\ Done
    /\ handler.tool = "merge_pull_request"
    /\ arguments = [owner |-> StrV("o"), repo |-> StrV("r"), pull_number |-> IntV(5),
                    merge_method |-> IntV(5)]
    /\ response.type = "error"
    /\ ~client
    /\ api_calls = <<>>

\* ================================================================== registry frames
\* ------------------------------------------------------------------ C29
\* C29: enable_toolset(name) changes at most the enabled flag of the toolset called
\* name: the other toolsets' flags, every toolset's read_tools and write_tools, the
\* set and order of the toolsets and read_only stay as they were; read_only never
\* changes once the registry is constructed.
C29_EnableToolsetFrame ==
    /\ [][last'.op = "enable_toolset" =>
            /\ DOMAIN toolsets' = DOMAIN toolsets
            /\ toolset_order' = toolset_order
            /\ read_only' = read_only
            /\ \A n \in DOMAIN toolsets :
                  /\ n # last'.name => toolsets'[n] = toolsets[n]
                  /\ toolsets'[n].name = toolsets[n].name
                  /\ toolsets'[n].read_tools = toolsets[n].read_tools
                  /\ toolsets'[n].write_tools = toolsets[n].write_tools]_vars
    /\ [][read_only' = read_only]_vars

C29_Witness ==
    /\ last.op = "enable_toolset"
    /\ last.ret
    /\ toolsets[last.name].enabled
    /\ last.name \notin reg_enabled
    /\ \E n \in DOMAIN toolsets : ~toolsets[n].enabled

\* ------------------------------------------------------------------ C30
\* C30: after any sequence of add_toolset calls the registry holds at most one toolset
\* per name: adding a toolset under a name already present replaces the earlier one
\* (its tools and its enabled flag are lost) and keeps the earlier one's position in
\* the listing order; a new name goes to the end.
C30_AddToolsetReplaces ==
    /\ [](/\ NoDuplicates(toolset_order)
          /\ Range(toolset_order) = DOMAIN toolsets
          /\ \A n \in DOMAIN toolsets : toolsets[n].name = n)
    /\ [][last'.op = "add_toolset" =>
            LET ts == added'[1] IN
            /\ DOMAIN toolsets' = DOMAIN toolsets \cup {ts.name}
            /\ toolsets'[ts.name] = ts
            /\ \A n \in DOMAIN toolsets \ {ts.name} : toolsets'[n] = toolsets[n]
            /\ toolset_order' = IF ts.name \in DOMAIN toolsets THEN toolset_order
                                ELSE Append(toolset_order, ts.name)]_vars

\* the toolset added last stands first of two: it replaced an earlier one of its name
C30_Witness ==
    /\ last.op = "add_toolset"
    /\ Len(toolset_order) = 2
    /\ toolset_order[1] = added[1].name
    /\ toolsets[added[1].name] = added[1]
    /\ ~added[1].enabled
    /\ added[1].read_tools = <<>>

====
